---- MODULE Spec2Model ----
(***************************************************************************)
(* Model of the rest client of JecyG/hungkuk: the client (verb factories,  *)
(* SetBasicAuth), the request builder (setters, wrapURL, Do, tryOnce) and  *)
(* the classification of one attempt, from src/rest/request.go and the     *)
(* client file of package rest.                                            *)
(*                                                                         *)
(* One builder is followed from its creation by a verb factory.  A call    *)
(* of Do is split where the code's order matters or where it suspends:     *)
(* after wrapURL and http.NewRequest, at client.Do (the attempt is in      *)
(* flight) and between the return of one tryOnce and the next evaluation   *)
(* of the retry loop's condition.  Time is discrete; Tick lets one unit    *)
(* pass while an attempt is in flight or the loop is about to go on.       *)
(*                                                                         *)
(* The transport is net/http's: it fails a request whose URL has no        *)
(* scheme and a request whose context is done without reaching the peer;   *)
(* what the peer does with a request that reaches it is free.              *)
(*                                                                         *)
(* wire, result, attempts, start and calls describe the running Do, or     *)
(* the one that returned last; a setter call starts from a clean slate.    *)
(*                                                                         *)
(* Five further specifications follow parts of the code on their own:      *)
(* SpecParams (query parameters and the timeout, on the builder's own      *)
(* variables), SpecResult (Into and StatusCode on a Result that Do         *)
(* returned), SpecHeaders (WithHeader and the header block of tryOnce for  *)
(* two builders over the caller's header maps), SpecBus (package bus) and  *)
(* SpecDB (package mysql's handle cache).  Each leaves the variables of    *)
(* the other parts at their initial values.                                *)
(***************************************************************************)
EXTENDS Integers, Sequences, FiniteSets, TLC

\* ------------------------------------------------------------------ bounds
MaxRetry == 2      \* largest count given to WithMaxRetry
MaxTimeout == 1    \* largest duration given to WithTimeout
MaxInterval == 1   \* largest duration given to WithRetryInterval
MaxDo == 1         \* the builder is followed until this many calls of Do returned
MaxParams == 2     \* most query values a builder is given
MaxInto == 2       \* calls of Into followed on one Result
MaxHeaders == 2    \* calls of WithHeader followed on one builder
MaxCap == 1        \* largest capacity of a subscribed channel
MaxCalls == 2      \* calls of DB followed per goroutine

\* ------------------------------------------------------------- input sets
MethodGet == "GET"
Methods == {"GET", "POST", "PUT", "PATCH", "DELETE"}

GoodBase == "https://api.example.com"
BadBase == "http://[::1"
BaseURLs == {GoodBase, BadBase}

\* (username, password) pairs given to SetBasicAuth
Credentials == {<<"", "">>, <<"user", "pass">>}

RetryCounts == (0 - 1)..MaxRetry
Durations(max) == 0..max

\* Values handed to Body: nil, a value json.Marshal accepts, one it rejects.
\* Query parameters handed to WithParam and WithParams. SortedNames is
\* ParamNames in the order of sort.Strings.
ParamNames == {"limit", "timeout"}
SortedNames == <<"limit", "timeout">>
ParamValues == {"10", "20"}
ParamMaps ==
    UNION {[S -> ParamValues] : S \in SUBSET ParamNames}
NoParams == [n \in ParamNames |-> <<>>]

BodyValues == {"nil", "value", "channel"}

\* ------------------------------------------------------------------ errors
\* An error is the chain of its wrappers, outermost first, ending in a leaf.
NoErr == <<>>
MarshalErr == <<"json.UnsupportedTypeError">>
ParseErr == <<"url.Error", "parse">>
ResetErr == <<"url.Error", "net.OpError", "os.SyscallError", "ECONNRESET">>
RefusedErr == <<"url.Error", "net.OpError", "os.SyscallError", "ECONNREFUSED">>
SchemeErr == <<"url.Error", "unsupported protocol scheme">>
CanceledErr == <<"url.Error", "context canceled">>
DeadlineErr == <<"url.Error", "context deadline exceeded">>
UnexpectedEOF == <<"io.ErrUnexpectedEOF">>
ReadErr == <<"read: connection timed out">>
ExhaustedErr == <<"unexpected error">>

\* What the peer does with one dispatched request.
NetOutcomes ==
    { [kind |-> "fail", err |-> ResetErr, status |-> 0, body |-> ""],
      [kind |-> "fail", err |-> RefusedErr, status |-> 0, body |-> ""],
      [kind |-> "read", err |-> UnexpectedEOF, status |-> 200, body |-> ""],
      [kind |-> "read", err |-> ReadErr, status |-> 200, body |-> ""],
      [kind |-> "ok", err |-> NoErr, status |-> 200, body |-> "{}"],
      [kind |-> "ok", err |-> NoErr, status |-> 500, body |-> ""] }

Failed(err) == [kind |-> "fail", err |-> err, status |-> 0, body |-> ""]

VARIABLES
    rc,          \* restClient: baseURL, username, password
    r,           \* request: the builder's fields
    callerDone,  \* the context given to WithContext has been cancelled
    pc,          \* "nobuilder", "idle", "send" (in tryOnce, after
                 \* http.NewRequest), "inflight" (in client.Do), "loop" (in
                 \* Do's for), "returned" (Do returned; its Result is held)
    try,         \* Do's loop variable
    first,       \* the attempt in flight is the one before the loop
    wire,        \* the wire request of the last dispatched attempt
    result,      \* Do's rt: the Result it returns
    attempts,    \* history of the running (or returned) Do: one record per
                 \* tryOnce that returned
    start,       \* history: how the last dispatched attempt started
    calls,       \* history: calls of client.Do made by the running (or returned) Do
    doCount,     \* history: calls of Do on this builder
    elapsed,     \* time since the last tryOnce of the running Do returned
    res,         \* a Result in the caller's hands: body, err, statusCode
    loc,         \* the caller's int whose address is given to StatusCode
    intos,       \* history: one record per call of Into on res
    pointed,     \* history: the last call of StatusCode on res
    heap,        \* the http.Header maps the caller made, by address
    header,      \* per builder: the address in r.header, or "nil"
    given,       \* history, per builder: the addresses given to WithHeader
    sent,        \* history, per builder: the headers of its last wire request
    subscribers, \* bus.subscribers: per topic, the channels in order
    caps,        \* per channel: its capacity
    drains,      \* the channels whose receiver keeps receiving
    bufs,        \* per channel: the Events buffered in it
    senders,     \* the goroutines Publish started: Event, channels, position
    received,    \* history, per channel: the Events its receiver took
    options,     \* _options: per configured name, the Option its pointer leads to
    instances,   \* _instances: per name, the stored handle or NoHandle
    procs,       \* per goroutine calling DB: position, dbName, option, instance
    dbCalls,     \* history, per goroutine: its calls of DB
    created,     \* history, per name asked for: createInstance runs that succeeded
    returns      \* history: the (name asked for, handle) pairs DB returned

requestVars ==
    <<rc, r, callerDone, pc, try, first, wire, result, attempts, start, calls,
      doCount, elapsed>>

resultVars == <<res, loc, intos, pointed>>

headerVars == <<heap, header, given, sent>>

busVars == <<subscribers, caps, drains, bufs, senders, received>>

dbVars == <<options, instances, procs, dbCalls, created, returns>>

\* What the steps of a request builder leave alone.
notRequest == <<resultVars, headerVars, busVars, dbVars>>

\* What the steps on a Result leave alone.
notResult == <<requestVars, headerVars, busVars, dbVars>>

\* What WithHeader and the header block of tryOnce leave alone.
notHeader == <<requestVars, resultVars, busVars, dbVars>>

\* What the steps of the bus leave alone.
notBus == <<requestVars, resultVars, headerVars, dbVars>>

\* What the steps of the database manager leave alone.
notDB == <<requestVars, resultVars, headerVars, busVars>>

vars == <<requestVars, resultVars, headerVars, busVars, dbVars>>

\* ---------------------------------------------------------------- contexts
\* r.ctx: the base context and the context.WithTimeout wrappers put around
\* it, innermost first; a wrapper holds the time left to its deadline and
\* whether its cancelFn ran.
NilCtx == [base |-> "nil", wraps |-> <<>>]
Background == [base |-> "background", wraps |-> <<>>]
CallerCtx == [base |-> "caller", wraps |-> <<>>]

BaseDone(ctx, cd) == ctx.base = "caller" /\ cd

WrapDone(w) == w.cancelled \/ w.left = 0

CtxDone(ctx, cd) ==
    BaseDone(ctx, cd) \/ \E i \in 1..Len(ctx.wraps) : WrapDone(ctx.wraps[i])

\* The errors a done context can carry.
CtxErrs(ctx, cd) ==
    (IF BaseDone(ctx, cd) \/ \E i \in 1..Len(ctx.wraps) : ctx.wraps[i].cancelled
        THEN {CanceledErr} ELSE {})
    \cup
    (IF \E i \in 1..Len(ctx.wraps) : ~ctx.wraps[i].cancelled /\ ctx.wraps[i].left = 0
        THEN {DeadlineErr} ELSE {})

\* context.WithTimeout(ctx, d)
WithTimeoutCtx(ctx, d) ==
    [ctx EXCEPT !.wraps = Append(@, [left |-> d, cancelled |-> FALSE])]

\* cancelFn of the outermost wrapper
CancelLast(ctx) ==
    [ctx EXCEPT !.wraps[Len(ctx.wraps)] = [left |-> 0, cancelled |-> TRUE]]

\* One unit of time passes for every wrapper whose deadline is still ahead.
AgeCtx(ctx) ==
    [ctx EXCEPT !.wraps =
        [i \in 1..Len(ctx.wraps) |->
            IF ctx.wraps[i].cancelled \/ ctx.wraps[i].left = 0
            THEN ctx.wraps[i]
            ELSE [ctx.wraps[i] EXCEPT !.left = @ - 1]]]

\* ------------------------------------------------------------------ client
NoRequest ==
    [method |-> "", baseURL |-> "", username |-> "", password |-> "",
     body |-> "<nil>", ctx |-> NilCtx, retryCount |-> 0, retryInterval |-> 0,
     timeout |-> 0, err |-> NoErr, params |-> NoParams]

NoWire ==
    [method |-> "", url |-> "", query |-> <<>>, body |-> "<nil>",
     authorization |-> <<>>]

NoResult == [body |-> "", err |-> NoErr, statusCode |-> 0]

NoStart == [ctxDone |-> FALSE, callerDone |-> FALSE, waited |-> 0]

\* NewClient(client, baseURL)
NoPointer == [p |-> "none", returned |-> NoResult]

\* No Result is in the caller's hands.
ResultIdle ==
    /\ res = NoResult
    /\ loc = 0
    /\ intos = <<>>
    /\ pointed = NoPointer

\* Two builders made by the verb factories of one client.
Builders == {1, 2}

\* The http.Header maps the caller makes: by composite literal (keys as
\* written) or by Set and Add (canonical keys).
CallerHeaders ==
    [hA |-> "X-Trace" :> <<"a">>,
     hB |-> ("Content-Type" :> <<"text/xml">>) @@ ("Accept-Encoding" :> <<"gzip">>)
            @@ ("X-Trace" :> <<"b">>),
     hC |-> "Authorization" :> <<"Bearer t">>,
     hD |-> "accept-encoding" :> <<"br">>]

NoSent == [given |-> <<>>, conf |-> <<>>, header |-> <<>>, done |-> FALSE]

\* No builder was given a header set.
HeadersIdle ==
    /\ heap = CallerHeaders
    /\ header = [b \in Builders |-> "nil"]
    /\ given = [b \in Builders |-> <<>>]
    /\ sent = [b \in Builders |-> NoSent]

\* The topics, the channels the subscribers made and the data published.
Topics == {"t"}
Chans == {"c1", "c2"}
Data == {"d1", "d2"}

\* bus.New, and channels nobody receives from.
BusIdle ==
    /\ subscribers = [t \in Topics |-> <<>>]
    /\ caps = [c \in Chans |-> 0]
    /\ drains = {}
    /\ bufs = [c \in Chans |-> <<>>]
    /\ senders = <<>>
    /\ received = [c \in Chans |-> <<>>]

\* The Options given to Init, in order, the names DB is asked for (one of
\* them not configured) and the goroutines that call DB.
InitOptions == <<[DBName |-> "a"], [DBName |-> "b"]>>
DBNames == {"a", "b", "x"}
Procs == {1, 2}

\* No *gorm.DB.
NoHandle == [db |-> "", id |-> 0]

NoProc ==
    [pc |-> "idle", dbName |-> "", option |-> [DBName |-> ""],
     instance |-> NoHandle]

\* The package variables before Init, and nobody calling DB.
DBIdle ==
    /\ options = <<>>
    /\ instances = [n \in DBNames |-> NoHandle]
    /\ procs = [p \in Procs |-> NoProc]
    /\ dbCalls = [p \in Procs |-> 0]
    /\ created = [n \in DBNames |-> 0]
    /\ returns = {}

\* No builder, no Result, no header set and an idle bus.
RequestIdle ==
    /\ rc = [baseURL |-> GoodBase, username |-> "", password |-> ""]
    /\ r = NoRequest
    /\ callerDone = FALSE
    /\ pc = "nobuilder"
    /\ try = 0
    /\ first = FALSE
    /\ wire = NoWire
    /\ result = NoResult
    /\ attempts = <<>>
    /\ start = NoStart
    /\ calls = 0
    /\ doCount = 0
    /\ elapsed = 0

Init ==
    /\ ResultIdle
    /\ HeadersIdle
    /\ BusIdle
    /\ DBIdle
    /\ rc \in [baseURL : BaseURLs, username : {""}, password : {""}]
    /\ r = NoRequest
    /\ callerDone = FALSE
    /\ pc = "nobuilder"
    /\ try = 0
    /\ first = FALSE
    /\ wire = NoWire
    /\ result = NoResult
    /\ attempts = <<>>
    /\ start = NoStart
    /\ calls = 0
    /\ doCount = 0
    /\ elapsed = 0

SetBasicAuth(username, password) ==
    /\ UNCHANGED notRequest
    /\ pc = "nobuilder"
    /\ rc' = [rc EXCEPT !.username = username, !.password = password]
    /\ rc' # rc
    /\ UNCHANGED <<r, callerDone, pc, try, first, wire, result, attempts, start, calls,
                   doCount, elapsed>>

\* restClient.method
NewRequest(method) ==
    [NoRequest EXCEPT !.method = method, !.baseURL = rc.baseURL,
                      !.username = rc.username, !.password = rc.password]

Verb(method) ==
    /\ UNCHANGED notRequest
    /\ pc = "nobuilder"
    /\ r' = NewRequest(method)
    /\ pc' = "idle"
    /\ UNCHANGED <<rc, callerDone, try, first, wire, result, attempts, start, calls,
                   doCount, elapsed>>

Get == Verb("GET")
Post == Verb("POST")
Put == Verb("PUT")
Patch == Verb("PATCH")
Delete == Verb("DELETE")

\* ----------------------------------------------------------------- setters
\* A setter is called on a builder that is not inside Do; the caller has let
\* go of the Result of an earlier Do.  Setters are followed as long as a Do
\* can still come after them.
Setter(req, cd) ==
    /\ UNCHANGED notRequest
    /\ pc \in {"idle", "returned"}
    /\ doCount < MaxDo
    /\ r' = req
    /\ callerDone' = cd
    /\ pc' = "idle"
    /\ wire' = NoWire
    /\ result' = NoResult
    /\ attempts' = <<>>
    /\ start' = NoStart
    /\ calls' = 0
    /\ UNCHANGED <<rc, try, first, doCount, elapsed>>

\* The caller hands in nil or a context of its own, cancelled already or not.
WithContext(c, done) ==
    Setter([r EXCEPT !.ctx = IF c = "nil" THEN NilCtx ELSE CallerCtx],
           c = "caller" /\ done)

WithTimeout(d) == Setter([r EXCEPT !.timeout = d], callerDone)

WithMaxRetry(count) == Setter([r EXCEPT !.retryCount = count], callerDone)

WithRetryInterval(d) == Setter([r EXCEPT !.retryInterval = d], callerDone)

\* The number of values r.params holds.
RECURSIVE ParamCount(_, _)
ParamCount(params, names) ==
    IF names = {} THEN 0
    ELSE LET n == CHOOSE x \in names : TRUE
         IN  Len(params[n]) + ParamCount(params, names \ {n})

WithParam(name, value) ==
    /\ ParamCount(r.params, ParamNames) < MaxParams
    /\ Setter([r EXCEPT !.params[name] = Append(@, value)], callerDone)

\* The loop of WithParams: one append per entry of the map.
ParamsMerged(params, m) ==
    [n \in ParamNames |->
        IF n \in DOMAIN m THEN Append(params[n], m[n]) ELSE params[n]]

WithParams(m) ==
    /\ ParamCount(r.params, ParamNames) + Cardinality(DOMAIN m) <= MaxParams
    /\ Setter([r EXCEPT !.params = ParamsMerged(r.params, m)], callerDone)

\* json.Marshal
Marshal(v) ==
    IF v = "channel" THEN [data |-> "", err |-> MarshalErr]
    ELSE [data |-> "{\"k\":1}", err |-> NoErr]

BodyOf(req, v) ==
    IF v = "nil" THEN [req EXCEPT !.body = ""]
    ELSE IF Marshal(v).err # NoErr
         THEN [req EXCEPT !.err = Marshal(v).err, !.body = ""]
         ELSE [req EXCEPT !.body = Marshal(v).data]

Body(v) == Setter(BodyOf(r, v), callerDone)

\* The caller cancels the context it gave to WithContext.
CancelCaller ==
    /\ UNCHANGED notRequest
    /\ pc # "nobuilder"
    /\ r.ctx.base = "caller"
    /\ ~callerDone
    /\ callerDone' = TRUE
    /\ UNCHANGED <<rc, r, pc, try, first, wire, result, attempts, start, calls, doCount,
                   elapsed>>

\* ----------------------------------------------------------------- wrapURL
\* url.Parse
ParseOK(s) == s # BadBase

\* time.Duration.String
DurationString(d) == ToString(d) \o "s"

\* The URL wrapURL returns and the value it leaves in r.err.
\* The url.Values wrapURL fills: query.Add for every value of r.params,
\* then query.Set of the timeout.
Query(req) ==
    IF req.timeout # 0
    THEN [req.params EXCEPT !["timeout"] = <<DurationString(req.timeout)>>]
    ELSE req.params

\* url.Values.Encode: the (name, value) pairs, names sorted, the values of
\* a name in their order.
RECURSIVE Encode(_, _)
Encode(q, names) ==
    IF names = <<>> THEN <<>>
    ELSE [i \in 1..Len(q[Head(names)]) |-> <<Head(names), q[Head(names)][i]>>]
         \o Encode(q, Tail(names))

\* The text of an encoded query.
RECURSIVE RawQuery(_)
RawQuery(pairs) ==
    IF pairs = <<>> THEN ""
    ELSE Head(pairs)[1] \o "=" \o Head(pairs)[2] \o
         (IF Tail(pairs) = <<>> THEN "" ELSE "&" \o RawQuery(Tail(pairs)))

WrapURL(req) ==
    IF req.baseURL # "" /\ ~ParseOK(req.baseURL)
    THEN [url |-> "", query |-> <<>>, err |-> ParseErr]
    ELSE LET pairs == Encode(Query(req), SortedNames)
         IN  [url |-> req.baseURL \o
                      (IF pairs = <<>> THEN "" ELSE "?" \o RawQuery(pairs)),
              query |-> pairs,
              err |-> req.err]

\* ----------------------------------------------------------------- tryOnce
\* http.Request.SetBasicAuth: the value of the Authorization header
\* (base64 left unapplied).
BasicAuth(username, password) == "Basic " \o username \o ":" \o password

\* The Authorization values tryOnce puts on the wire request.
Authorization(req) == <<BasicAuth(req.username, req.password)>>

\* r.ctx after the timeout block of tryOnce.
AttemptCtx(req) ==
    IF req.timeout > 0
    THEN WithTimeoutCtx(IF req.ctx = NilCtx THEN Background ELSE req.ctx, req.timeout)
    ELSE req.ctx

\* The head of tryOnce: wrapURL, then http.NewRequest, which cannot fail
\* here (the method is one of the five constants and the URL is one that
\* url.URL.String produced).
TryOnceBuild ==
    /\ r' = [r EXCEPT !.err = WrapURL(r).err]
    /\ wire' = [method |-> r.method, url |-> WrapURL(r).url,
                query |-> WrapURL(r).query, body |-> r.body,
                authorization |-> <<>>]
    /\ pc' = "send"

\* The rest of tryOnce up to the call of client.Do: the context, the
\* headers and the credentials are put on the wire request and it is
\* dispatched.
TryOnceSend ==
    /\ UNCHANGED notRequest
    /\ pc = "send"
    /\ r' = [r EXCEPT !.ctx = AttemptCtx(r)]
    /\ wire' = [wire EXCEPT !.authorization = Authorization(r)]
    /\ start' = [ctxDone |-> CtxDone(AttemptCtx(r), callerDone),
                 callerDone |-> BaseDone(r.ctx, callerDone),
                 waited |-> elapsed]
    /\ calls' = calls + 1
    /\ pc' = "inflight"
    /\ UNCHANGED <<rc, callerDone, try, first, result, attempts, doCount, elapsed>>

\* isConnectionReset without the os.SyscallError step.
isConnectionResetShallow(err) ==
    LET e1 == IF err # <<>> /\ Head(err) = "url.Error" THEN Tail(err) ELSE err
        e2 == IF e1 # <<>> /\ Head(e1) = "net.OpError" THEN Tail(e1) ELSE e1
    IN  e2 = <<"ECONNRESET">>

isConnectionReset(err) ==
    LET e1 == IF err # <<>> /\ Head(err) = "url.Error" THEN Tail(err) ELSE err
        e2 == IF e1 # <<>> /\ Head(e1) = "net.OpError" THEN Tail(e1) ELSE e1
        e3 == IF e2 # <<>> /\ Head(e2) = "os.SyscallError" THEN Tail(e2) ELSE e2
    IN  e3 = <<"ECONNRESET">>

\* The request does not reach the peer.
Unreached == [kind |-> "unreached", err |-> NoErr, status |-> 0, body |-> ""]

\* What can become of a dispatched request: net/http's transport refuses a
\* URL without scheme, then a context that is done; any other request
\* reaches the peer.
PeerOutcomes(url, ctx, cd) ==
    IF url = "" \/ CtxDone(ctx, cd) THEN {Unreached} ELSE NetOutcomes

\* What client.Do and ioutil.ReadAll give tryOnce.
TransportAnswers(url, ctx, cd, n) ==
    IF url = "" THEN {Failed(SchemeErr)}
    ELSE IF CtxDone(ctx, cd) THEN {Failed(e) : e \in CtxErrs(ctx, cd)}
    ELSE {n}

\* Classify with the method test of the transport-failure branch left out.
ClassifyAnyMethod(a, method) ==
    IF a.kind = "fail"
    THEN IF ~isConnectionReset(a.err)
         THEN [rt |-> [NoResult EXCEPT !.err = a.err], retry |-> FALSE]
         ELSE [rt |-> NoResult, retry |-> TRUE]
    ELSE IF a.kind = "read"
    THEN IF a.err = UnexpectedEOF
         THEN [rt |-> NoResult, retry |-> TRUE]
         ELSE [rt |-> [NoResult EXCEPT !.err = a.err], retry |-> FALSE]
    ELSE [rt |-> [body |-> a.body, err |-> NoErr, statusCode |-> a.status],
          retry |-> FALSE]

\* Classify with the status code stored before the body is read.
ClassifyStatusFirst(a, method) ==
    IF a.kind = "fail"
    THEN IF ~isConnectionReset(a.err) \/ method # MethodGet
         THEN [rt |-> [NoResult EXCEPT !.err = a.err], retry |-> FALSE]
         ELSE [rt |-> NoResult, retry |-> TRUE]
    ELSE IF a.kind = "read"
    THEN IF a.err = UnexpectedEOF
         THEN [rt |-> [NoResult EXCEPT !.statusCode = a.status], retry |-> TRUE]
         ELSE [rt |-> [body |-> "", err |-> a.err, statusCode |-> a.status],
               retry |-> FALSE]
    ELSE [rt |-> [body |-> a.body, err |-> NoErr, statusCode |-> a.status],
          retry |-> FALSE]

\* The (result, retry) pair tryOnce returns for an answer.
Classify(a, method) ==
    IF a.kind = "fail"
    THEN IF ~isConnectionReset(a.err) \/ method # MethodGet
         THEN [rt |-> [NoResult EXCEPT !.err = a.err], retry |-> FALSE]
         ELSE [rt |-> NoResult, retry |-> TRUE]
    ELSE IF a.kind = "read"
    THEN IF a.err = UnexpectedEOF
         THEN [rt |-> NoResult, retry |-> TRUE]
         ELSE [rt |-> [NoResult EXCEPT !.err = a.err], retry |-> FALSE]
    ELSE [rt |-> [body |-> a.body, err |-> NoErr, statusCode |-> a.status],
          retry |-> FALSE]

\* The deferred cancelFn of tryOnce.
Release(req) ==
    IF req.timeout > 0 THEN [req EXCEPT !.ctx = CancelLast(@)] ELSE req

\* ---------------------------------------------------------------------- Do
\* The loop's condition off by one.
LoopCondInclusive(t, retryCount) == t <= retryCount

\* The condition of Do's for loop.
LoopCond(t, retryCount) == t < retryCount

\* Do without its tests of retry: every attempt is followed by the loop.
AfterTryAlwaysLoop(retry) == "loop"

\* Where Do goes when tryOnce returned: back to its caller, or on to the loop.
AfterTry(retry) == IF retry THEN "loop" ELSE "returned"

Do ==
    /\ UNCHANGED notRequest
    /\ pc \in {"idle", "returned"}
    /\ doCount < MaxDo
    /\ doCount' = doCount + 1
    /\ elapsed' = 0
    /\ try' = 0
    /\ UNCHANGED <<rc, callerDone>>
    /\ IF r.err # NoErr
       THEN /\ result' = [NoResult EXCEPT !.err = r.err]
            /\ attempts' = <<>>
            /\ start' = NoStart
            /\ calls' = 0
            /\ wire' = NoWire
            /\ pc' = "returned"
            /\ first' = FALSE
            /\ UNCHANGED r
       ELSE /\ result' = NoResult
            /\ first' = TRUE
            /\ attempts' = <<>>
            /\ start' = NoStart
            /\ calls' = 0
            /\ TryOnceBuild

\* client.Do returns and tryOnce runs to its end; Do returns unless the
\* attempt asks for a retry.
Answer ==
    /\ UNCHANGED notRequest
    /\ pc = "inflight"
    /\ \E n \in PeerOutcomes(wire.url, r.ctx, callerDone) :
       \E a \in TransportAnswers(wire.url, r.ctx, callerDone, n) :
         LET c == Classify(a, r.method) IN
         /\ attempts' = Append(attempts, [net |-> n, answer |-> a, retry |-> c.retry])
         /\ result' = c.rt
         /\ pc' = AfterTry(c.retry)
         /\ try' = IF ~c.retry THEN try ELSE IF first THEN 0 ELSE try + 1
    /\ r' = Release(r)
    /\ first' = FALSE
    /\ elapsed' = 0
    /\ UNCHANGED <<rc, callerDone, wire, start, calls, doCount>>

\* Do's for loop: its condition, then the next tryOnce or the return of
\* the exhaustion error.
Loop ==
    /\ UNCHANGED notRequest
    /\ pc = "loop"
    /\ UNCHANGED <<rc, callerDone, try, first, doCount>>
    /\ IF LoopCond(try, r.retryCount)
       THEN /\ TryOnceBuild
            /\ UNCHANGED <<result, attempts, start, calls, elapsed>>
       ELSE /\ result' = [result EXCEPT !.err = ExhaustedErr]
            /\ pc' = "returned"
            /\ elapsed' = 0
            /\ UNCHANGED <<r, wire, attempts, start, calls>>

\* One unit of time passes while a Do is running.
Tick ==
    /\ UNCHANGED notRequest
    /\ pc \in {"inflight", "loop"}
    /\ r' = [r EXCEPT !.ctx = AgeCtx(@)]
    /\ elapsed' = IF pc = "loop" /\ elapsed < MaxInterval THEN elapsed + 1 ELSE elapsed
    /\ r' # r \/ elapsed' # elapsed
    /\ UNCHANGED <<rc, callerDone, pc, try, first, wire, result, attempts, start, calls,
                   doCount>>

Next ==
    \/ \E c \in Credentials : SetBasicAuth(c[1], c[2])
    \/ Get \/ Post \/ Put \/ Patch \/ Delete
    \/ \E c \in {"nil", "caller"}, done \in BOOLEAN : WithContext(c, done)
    \/ \E d \in Durations(MaxTimeout) : WithTimeout(d)
    \/ \E n \in RetryCounts : WithMaxRetry(n)
    \/ \E d \in Durations(MaxInterval) : WithRetryInterval(d)
    \/ \E v \in BodyValues : Body(v)
    \/ CancelCaller
    \/ Do
    \/ TryOnceSend
    \/ Answer
    \/ Loop
    \/ Tick

Spec == Init /\ [][Next]_vars

\* ------------------------------------------------------------------ Result
\* The Results Do hands out: an error with nothing else, or a body (empty
\* when the peer sent none) and a status code.
ResultBodies == {"", "{\"k\":1}", "<html>"}
StatusCodes == {200, 404, 500}
DoResults ==
    {[body |-> "", err |-> e, statusCode |-> 0] :
        e \in {RefusedErr, ReadErr, ExhaustedErr}}
    \cup {[body |-> b, err |-> NoErr, statusCode |-> s] :
        b \in ResultBodies, s \in StatusCodes}

\* The targets handed to Into: nil or a pointer to a map.
Targets == {"nil", "map"}

\* What the caller's int holds before StatusCode is called.
LocValues == {0, 200}

\* json.Decoder.Decode of a body into the target.
Decode(body) ==
    IF body = "{\"k\":1}" THEN NoErr ELSE <<"json.SyntaxError">>

EmptyBodyErr(statusCode) == <<"empty response body with status code", statusCode>>
DecodeErr(err) == <<"decode response body error">> \o err
StatusErr(statusCode) == <<"http response with status", statusCode>>

\* Into of the revision that looked at the status code first.
IntoStatusFirst(rt, obj) ==
    IF rt.err # NoErr THEN [ret |-> rt.err, decoded |-> FALSE, rt |-> rt]
    ELSE IF rt.statusCode # 200
    THEN [ret |-> StatusErr(rt.statusCode), decoded |-> FALSE, rt |-> rt]
    ELSE IF obj = "nil" THEN [ret |-> NoErr, decoded |-> FALSE, rt |-> rt]
    ELSE IF Decode(rt.body) # NoErr
    THEN [ret |-> DecodeErr(Decode(rt.body)), decoded |-> FALSE, rt |-> rt]
    ELSE [ret |-> NoErr, decoded |-> TRUE, rt |-> rt]

\* Into reading the body as a stream that is empty afterwards.
IntoDraining(rt, obj) ==
    IF rt.err # NoErr THEN [ret |-> rt.err, decoded |-> FALSE, rt |-> rt]
    ELSE IF obj = "nil" THEN [ret |-> NoErr, decoded |-> FALSE, rt |-> rt]
    ELSE IF rt.body = ""
    THEN [ret |-> EmptyBodyErr(rt.statusCode), decoded |-> FALSE, rt |-> rt]
    ELSE IF Decode(rt.body) # NoErr
    THEN [ret |-> DecodeErr(Decode(rt.body)), decoded |-> FALSE,
          rt |-> [rt EXCEPT !.body = ""]]
    ELSE [ret |-> NoErr, decoded |-> TRUE, rt |-> [rt EXCEPT !.body = ""]]

\* result.Into: the error it returns, whether the target was filled, and
\* the Result it leaves (it assigns to no field).
IntoOf(rt, obj) ==
    IF rt.err # NoErr THEN [ret |-> rt.err, decoded |-> FALSE, rt |-> rt]
    ELSE IF obj = "nil" THEN [ret |-> NoErr, decoded |-> FALSE, rt |-> rt]
    ELSE IF rt.body = ""
    THEN [ret |-> EmptyBodyErr(rt.statusCode), decoded |-> FALSE, rt |-> rt]
    ELSE IF Decode(rt.body) # NoErr
    THEN [ret |-> DecodeErr(Decode(rt.body)), decoded |-> FALSE, rt |-> rt]
    ELSE [ret |-> NoErr, decoded |-> TRUE, rt |-> rt]

Into(obj) ==
    /\ Len(intos) < MaxInto
    /\ intos' = Append(intos, [obj |-> obj, before |-> res,
                               ret |-> IntoOf(res, obj).ret,
                               decoded |-> IntoOf(res, obj).decoded,
                               after |-> IntoOf(res, obj).rt])
    /\ res' = IntoOf(res, obj).rt
    /\ UNCHANGED <<loc, pointed>>
    /\ UNCHANGED notResult

\* result.StatusCode: what the caller's int holds afterwards. The
\* assignment rebinds the parameter; nothing is written through it.
StatusCodeOf(rt, p, l) == l

StatusCode(p) ==
    /\ loc' = (IF p = "nil" THEN loc ELSE StatusCodeOf(res, p, loc))
    /\ pointed' = [p |-> p, returned |-> res]
    /\ UNCHANGED <<res, intos>>
    /\ UNCHANGED notResult

\* A Result returned by Do, in the hands of a caller.
InitResult ==
    /\ RequestIdle
    /\ HeadersIdle
    /\ BusIdle
    /\ DBIdle
    /\ res \in DoResults
    /\ loc \in LocValues
    /\ intos = <<>>
    /\ pointed = NoPointer

NextResult ==
    \/ \E obj \in Targets : Into(obj)
    \/ \E p \in {"nil", "loc"} : StatusCode(p)

SpecResult == InitResult /\ [][NextResult]_vars

\* ----------------------------------------------------------------- headers
\* textproto.CanonicalMIMEHeaderKey on the keys in use.
Canonical(key) ==
    IF key = "accept-encoding" THEN "Accept-Encoding"
    ELSE IF key = "content-type" THEN "Content-Type"
    ELSE key

\* http.Header.Add, Set and Del.
HAdd(h, key, v) ==
    IF Canonical(key) \in DOMAIN h
    THEN [h EXCEPT ![Canonical(key)] = Append(@, v)]
    ELSE h @@ (Canonical(key) :> <<v>>)

HSet(h, key, v) == (Canonical(key) :> <<v>>) @@ h

HDel(h, key) == [k \in DOMAIN h \ {Canonical(key)} |-> h[k]]

\* The inner loop of WithHeader: r.header.Add(key, v) for each value.
RECURSIVE AddAll(_, _, _)
AddAll(h, key, values) ==
    IF values = <<>> THEN h
    ELSE AddAll(HAdd(h, key, Head(values)), key, Tail(values))

\* The outer loop of WithHeader over the keys of the given map. No two keys
\* of a caller's map share a canonical form, so the order of the range
\* does not show.
RECURSIVE Merge(_, _, _)
Merge(dst, src, keys) ==
    IF keys = {} THEN dst
    ELSE LET key == CHOOSE k \in keys : TRUE
         IN  Merge(AddAll(dst, key, src[key]), src, keys \ {key})

\* WithHeader on builder b with the caller's map at address a. The caller
\* gives a builder each of its maps once at most.
WithHeader(b, a) ==
    /\ Len(given[b]) < MaxHeaders
    /\ a \notin {given[b][i] : i \in DOMAIN given[b]}
    /\ given' = [given EXCEPT ![b] = Append(@, a)]
    /\ IF header[b] = "nil"
       THEN /\ header' = [header EXCEPT ![b] = a]
            /\ UNCHANGED heap
       ELSE /\ heap' = [heap EXCEPT ![header[b]] = Merge(@, heap[a], DOMAIN heap[a])]
            /\ UNCHANGED header
    /\ UNCHANGED sent
    /\ UNCHANGED notHeader

\* r.header.Clone(), or a fresh map when there is none.
Clone(hp, a) == IF a = "nil" THEN <<>> ELSE hp[a]

\* The header block of tryOnce and SetBasicAuth.
WireHeader(h, username, password) ==
    HSet(HSet(HSet(HSet(HDel(h, "Accept-Encoding"),
                        "Content-Type", "application/json"),
                   "Accept", "application/json"),
              "Accept-Charset", "utf-8"),
         "Authorization", BasicAuth(username, password))

\* An attempt of builder b, up to the wire request.
TryOnce(b) ==
    /\ sent' = [sent EXCEPT ![b] =
                  [given |-> given[b], conf |-> Clone(heap, header[b]),
                   header |-> WireHeader(Clone(heap, header[b]),
                                         rc.username, rc.password),
                   done |-> TRUE]]
    /\ UNCHANGED <<heap, header, given>>
    /\ UNCHANGED notHeader

\* Two builders of a client with or without credentials.
InitHeaders ==
    /\ rc \in {[baseURL |-> GoodBase, username |-> c[1], password |-> c[2]] :
                  c \in Credentials}
    /\ r = NoRequest
    /\ callerDone = FALSE
    /\ pc = "nobuilder"
    /\ try = 0
    /\ first = FALSE
    /\ wire = NoWire
    /\ result = NoResult
    /\ attempts = <<>>
    /\ start = NoStart
    /\ calls = 0
    /\ doCount = 0
    /\ elapsed = 0
    /\ ResultIdle
    /\ HeadersIdle
    /\ BusIdle
    /\ DBIdle

NextHeaders ==
    \/ \E b \in Builders, a \in DOMAIN CallerHeaders : WithHeader(b, a)
    \/ \E b \in Builders : TryOnce(b)

SpecHeaders == InitHeaders /\ [][NextHeaders]_vars

\* --------------------------------------------------------------------- bus
\* bus.Subscribe, under the write lock. A channel is subscribed once.
Subscribe(topic, receiver) ==
    /\ \A t \in Topics : \A i \in DOMAIN subscribers[t] : subscribers[t][i] # receiver
    /\ subscribers' = [subscribers EXCEPT ![topic] = Append(@, receiver)]
    /\ UNCHANGED <<caps, drains, bufs, senders, received>>
    /\ UNCHANGED notBus

\* bus.Publish, under the read lock: the channels of the topic are copied
\* and one goroutine is started for all of them; Publish returns. With no
\* subscriber there is nothing to send (the record then only remembers the
\* call). Each datum is published once.
Publish(topic, data) ==
    /\ \A i \in DOMAIN senders : senders[i].event.Data # data
    /\ senders' = Append(senders,
                         [event |-> [Topic |-> topic, Data |-> data],
                          channels |-> subscribers[topic], next |-> 1])
    /\ UNCHANGED <<subscribers, caps, drains, bufs, received>>
    /\ UNCHANGED notBus

\* ch <- data can proceed: there is room in the buffer, or the channel is
\* unbuffered and its receiver is receiving.
CanSend(ch) ==
    IF caps[ch] = 0 THEN ch \in drains ELSE Len(bufs[ch]) < caps[ch]

\* One turn of the goroutine's loop: the send on the next channel.
Send(i) ==
    /\ senders[i].next <= Len(senders[i].channels)
    /\ LET ch == senders[i].channels[senders[i].next] IN
       /\ CanSend(ch)
       /\ IF caps[ch] = 0
          THEN /\ received' = [received EXCEPT ![ch] = Append(@, senders[i].event)]
               /\ UNCHANGED bufs
          ELSE /\ bufs' = [bufs EXCEPT ![ch] = Append(@, senders[i].event)]
               /\ UNCHANGED received
    /\ senders' = [senders EXCEPT ![i].next = @ + 1]
    /\ UNCHANGED <<subscribers, caps, drains>>
    /\ UNCHANGED notBus

\* A receiver that keeps receiving takes an Event out of its channel's
\* buffer.
Receive(ch) ==
    /\ ch \in drains
    /\ bufs[ch] # <<>>
    /\ received' = [received EXCEPT ![ch] = Append(@, Head(bufs[ch]))]
    /\ bufs' = [bufs EXCEPT ![ch] = Tail(@)]
    /\ UNCHANGED <<subscribers, caps, drains, senders>>
    /\ UNCHANGED notBus

\* A new bus; the subscribers' channels are made with a capacity each, and
\* some receivers keep receiving while the others never do.
InitBus ==
    /\ RequestIdle
    /\ ResultIdle
    /\ HeadersIdle
    /\ DBIdle
    /\ subscribers = [t \in Topics |-> <<>>]
    /\ caps \in [Chans -> 0..MaxCap]
    /\ drains \in SUBSET Chans
    /\ bufs = [c \in Chans |-> <<>>]
    /\ senders = <<>>
    /\ received = [c \in Chans |-> <<>>]

Deliver ==
    \/ \E i \in DOMAIN senders : Send(i)
    \/ \E ch \in Chans : Receive(ch)

NextBus ==
    \/ \E t \in Topics, ch \in Chans : Subscribe(t, ch)
    \/ \E t \in Topics, d \in Data : Publish(t, d)
    \/ \E i \in DOMAIN senders : Send(i)
    \/ \E ch \in Chans : Receive(ch)

SpecBus == InitBus /\ [][NextBus]_vars

\* ------------------------------------------------------------------- mysql
\* _options after mysql.Init(opts...): each entry holds the address of the
\* loop variable. With one variable per iteration the entry leads to its
\* own Option; with one variable for the whole loop (Go before 1.22) every
\* entry leads to the last Option.
OptionsAfterInit(opts, perIteration) ==
    [n \in {opts[i].DBName : i \in DOMAIN opts} |->
        IF perIteration
        THEN opts[CHOOSE i \in DOMAIN opts :
                    /\ opts[i].DBName = n
                    /\ \A j \in DOMAIN opts : opts[j].DBName = n => j <= i]
        ELSE opts[Len(opts)]]

\* The handle of the n-th successful gorm.Open.
Handle(option, n) == [db |-> option.DBName, id |-> n]

RECURSIVE Sum(_, _)
Sum(f, S) ==
    IF S = {} THEN 0
    ELSE LET x == CHOOSE y \in S : TRUE IN f[x] + Sum(f, S \ {x})

\* A goroutine calls DB(dbName).
DBCall(p, dbName) ==
    /\ procs[p].pc = "idle"
    /\ dbCalls[p] < MaxCalls
    /\ dbCalls' = [dbCalls EXCEPT ![p] = @ + 1]
    /\ procs' = [procs EXCEPT ![p] = [NoProc EXCEPT !.pc = "load", !.dbName = dbName]]
    /\ UNCHANGED <<options, instances, created, returns>>
    /\ UNCHANGED notDB

\* _instances.Load: a hit returns the stored handle; a miss looks the
\* option up and returns an error when there is none.
DBLoad(p) ==
    /\ procs[p].pc = "load"
    /\ IF instances[procs[p].dbName] # NoHandle
       THEN /\ returns' = returns \cup
                   {[name |-> procs[p].dbName, handle |-> instances[procs[p].dbName]]}
            /\ procs' = [procs EXCEPT ![p] = NoProc]
       ELSE /\ UNCHANGED returns
            /\ IF procs[p].dbName \in DOMAIN options
               THEN procs' = [procs EXCEPT ![p].pc = "create",
                                           ![p].option = options[procs[p].dbName]]
               ELSE procs' = [procs EXCEPT ![p] = NoProc]
    /\ UNCHANGED <<options, instances, dbCalls, created>>
    /\ UNCHANGED notDB

\* createInstance: gorm.Open gives a new handle, or fails and DB returns
\* the error.
DBCreate(p) ==
    /\ procs[p].pc = "create"
    /\ \E ok \in BOOLEAN :
         IF ok
         THEN /\ procs' = [procs EXCEPT
                             ![p].pc = "store",
                             ![p].instance =
                                 Handle(procs[p].option, Sum(created, DBNames) + 1)]
              /\ created' = [created EXCEPT ![procs[p].dbName] = @ + 1]
         ELSE /\ procs' = [procs EXCEPT ![p] = NoProc]
              /\ UNCHANGED created
    /\ UNCHANGED <<options, instances, dbCalls, returns>>
    /\ UNCHANGED notDB

\* _instances.Store under the option's name, and the return of the handle.
DBStore(p) ==
    /\ procs[p].pc = "store"
    /\ instances' = [instances EXCEPT ![procs[p].option.DBName] = procs[p].instance]
    /\ returns' = returns \cup
           {[name |-> procs[p].dbName, handle |-> procs[p].instance]}
    /\ procs' = [procs EXCEPT ![p] = NoProc]
    /\ UNCHANGED <<options, dbCalls, created>>
    /\ UNCHANGED notDB

\* The package after Init(a, b), under either meaning of the loop variable.
InitDB ==
    /\ RequestIdle
    /\ ResultIdle
    /\ HeadersIdle
    /\ BusIdle
    /\ options \in {OptionsAfterInit(InitOptions, perIteration) :
                       perIteration \in BOOLEAN}
    /\ instances = [n \in DBNames |-> NoHandle]
    /\ procs = [p \in Procs |-> NoProc]
    /\ dbCalls = [p \in Procs |-> 0]
    /\ created = [n \in DBNames |-> 0]
    /\ returns = {}

NextDB ==
    \/ \E p \in Procs, n \in DBNames : DBCall(p, n)
    \/ \E p \in Procs : DBLoad(p)
    \/ \E p \in Procs : DBCreate(p)
    \/ \E p \in Procs : DBStore(p)

SpecDB == InitDB /\ [][NextDB]_vars

\* The builder of a GET on a well-formed base URL, given query parameters
\* and a timeout and then executed.
InitParams == Init /\ rc.baseURL = GoodBase

NextParams ==
    \/ Get
    \/ \E n \in ParamNames, v \in ParamValues : WithParam(n, v)
    \/ \E m \in ParamMaps : WithParams(m)
    \/ \E d \in Durations(MaxTimeout) : WithTimeout(d)
    \/ Do
    \/ TryOnceSend
    \/ Answer
    \/ Loop
    \/ Tick

SpecParams == InitParams /\ [][NextParams]_vars

\* ------------------------------------------------------------------ claims
ResetOutcome == Failed(ResetErr)

NonGet == Methods \ {MethodGet}

\* The Result a final (success or fatal) answer stands for.
ResultOf(a) ==
    IF a.kind = "ok"
    THEN [body |-> a.body, err |-> NoErr, statusCode |-> a.status]
    ELSE [body |-> "", err |-> a.err, statusCode |-> 0]

\* C1: with a retry bound N >= 0, one call of Do invokes the transport at
\* most N + 1 times, whatever the transport answers.
C1_AtMostBoundPlusOne ==
    r.retryCount >= 0 => calls <= r.retryCount + 1

\* C1 witness: a Do that used all its attempts, with at least one retry.
C1_Witness ==
    /\ pc = "returned"
    /\ r.retryCount >= 1
    /\ calls = r.retryCount + 1

C3_NonGetAtMostOnce ==
    r.method \in NonGet => calls <= 1

\* C4: for a non-GET builder a connection reset on the first attempt makes
\* Do return at once a Result carrying that error, after exactly one
\* transport call.
C4_NonGetResetFatal ==
    ( /\ r.method \in NonGet
      /\ attempts # <<>>
      /\ attempts[1].answer = ResetOutcome )
    => /\ pc = "returned"
       /\ calls = 1
       /\ Len(attempts) = 1
       /\ result = [NoResult EXCEPT !.err = ResetErr]

\* C4 witness: a DELETE with retries allowed whose first attempt was reset.
C4_Witness ==
    /\ pc = "returned"
    /\ r.method = "DELETE"
    /\ r.retryCount >= 1
    /\ attempts # <<>>
    /\ attempts[1].answer = ResetOutcome

\* C5: once the builder's construction error is set, no step clears it
\* and no step invokes the transport.
C5_ErrStickyAndBlocking ==
    [][r.err # NoErr => (r'.err # NoErr /\ calls' <= calls)]_vars

\* C6: the first Do of a builder whose base URL does not parse returns the
\* URL-parse error without any transport call.
C6_MalformedBaseNoCall ==
    ( /\ pc = "returned"
      /\ doCount = 1
      /\ ~ParseOK(r.baseURL)
      /\ r.err # MarshalErr )
    => /\ calls = 0
       /\ result = [NoResult EXCEPT !.err = ParseErr]

\* C7: an attempt starts with a handle that is already done only if the
\* caller's own handle is done.
C7_FreshHandlePerAttempt ==
    start.ctxDone => start.callerDone

\* C8: an attempt after the first starts only when the configured retry
\* interval has passed since the attempt before it returned.
C8_BackoffBetweenAttempts ==
    (pc = "inflight" /\ calls > 1) => start.waited >= r.retryInterval

\* C9: an attempt classified success or fatal is the last of its Do, and
\* the Result returned is that attempt's own.
C9_StopsAtFirstFinal ==
    \A i \in 1..Len(attempts) :
        ~attempts[i].retry =>
            /\ i = Len(attempts)
            /\ calls = i
            /\ pc = "returned"
            /\ result = ResultOf(attempts[i].answer)

\* C9 witness: a Do that succeeded on its third attempt.
C9_Witness ==
    /\ pc = "returned"
    /\ Len(attempts) = 3
    /\ attempts[1].retry /\ attempts[2].retry
    /\ attempts[3].answer.kind = "ok"
    /\ attempts[3].answer.status = 200
    /\ result.body = "{}"

\* C10: the wire request carries basic auth exactly when the builder's
\* credentials are non-empty.
C10_AuthOnlyWithCredentials ==
    pc = "inflight" =>
        wire.authorization =
            IF r.username = "" /\ r.password = ""
            THEN <<>>
            ELSE <<BasicAuth(r.username, r.password)>>

\* C16: an attempt is retryable exactly when the transport failed with a
\* connection reset and the method is GET, or the body read failed with
\* unexpected EOF; a final attempt gives the underlying error, or the body
\* and status code; nothing else (retry bound, attempt number, status code)
\* changes it.
C16_ClassifyByOutcomeAndMethod ==
    \A i \in 1..Len(attempts) :
        LET a == attempts[i].answer IN
        /\ attempts[i].retry <=>
              \/ a.kind = "fail" /\ a.err = ResetErr /\ r.method = MethodGet
              \/ a.kind = "read" /\ a.err = UnexpectedEOF
        /\ (~attempts[i].retry /\ pc = "returned") =>
              /\ a.kind = "ok" =>
                    result = [body |-> a.body, err |-> NoErr, statusCode |-> a.status]
              /\ a.kind # "ok" => result.err = a.err

\* C16 witness: a GET whose first attempt was reset and retried and whose
\* second attempt failed for good with another transport error.
C16_Witness ==
    /\ pc = "returned"
    /\ r.method = MethodGet
    /\ Len(attempts) = 2
    /\ attempts[1].answer = ResetOutcome /\ attempts[1].retry
    /\ attempts[2].answer = Failed(RefusedErr) /\ ~attempts[2].retry
    /\ result.err = RefusedErr

\* C18: a Result returned by Do either has an error, an empty body and
\* status code zero, or has no error and the body and status code of the
\* one successful attempt of that Do.
C18_ResultShapes ==
    pc = "returned" =>
        \/ result.err # NoErr /\ result.body = "" /\ result.statusCode = 0
        \/ /\ result.err = NoErr
           /\ attempts # <<>>
           /\ attempts[Len(attempts)].answer.kind = "ok"
           /\ result.body = attempts[Len(attempts)].answer.body
           /\ result.statusCode = attempts[Len(attempts)].answer.status
           /\ \A j \in 1..(Len(attempts) - 1) : attempts[j].answer.kind # "ok"

\* C18 witness: a Do that returned the exhaustion error after a response
\* whose body read failed.
C18_Witness ==
    /\ pc = "returned"
    /\ result.err = ExhaustedErr
    /\ attempts # <<>>
    /\ attempts[Len(attempts)].answer.kind = "read"

\* Occurrences of x in the sequence s.
Count(s, x) == Cardinality({i \in DOMAIN s : s[i] = x})

\* C12: WithParam, WithParams and WithTimeout never remove or replace a
\* query value added earlier, and the query of the URL built for an attempt
\* holds every (name, value) pair that was added, as often as it was added.
C12_ParamsOnlyAppend ==
    [][/\ \A n \in ParamNames :
            /\ Len(r.params[n]) <= Len(r'.params[n])
            /\ SubSeq(r'.params[n], 1, Len(r.params[n])) = r.params[n]
       /\ pc' = "send" =>
            \A n \in ParamNames, v \in ParamValues :
                Count(wire'.query, <<n, v>>) >= Count(r'.params[n], v)]_vars

\* C13: Into with a nil target on a Result without an error returns no
\* error and decodes nothing, whatever the status code and the body are.
C13_NilTargetSucceeds ==
    \A i \in DOMAIN intos :
        (intos[i].obj = "nil" /\ intos[i].before.err = NoErr) =>
            (intos[i].ret = NoErr /\ ~intos[i].decoded)

\* C13 witness: Into(nil) was called on a Result without an error, with
\* status code 500 and an empty body.
C13_Witness ==
    \E i \in DOMAIN intos :
        /\ intos[i].obj = "nil"
        /\ intos[i].before = [body |-> "", err |-> NoErr, statusCode |-> 500]

\* C14: Into leaves the Result as it found it, and a second Into with the
\* same target returns what the first returned.
C14_IntoIdempotent ==
    /\ \A i \in DOMAIN intos : intos[i].after = intos[i].before
    /\ \A i, j \in DOMAIN intos :
          intos[i].obj = intos[j].obj =>
              /\ intos[i].ret = intos[j].ret
              /\ intos[i].decoded = intos[j].decoded

\* C14 witness: two calls of Into with a non-nil target on a Result whose
\* body decodes.
C14_Witness ==
    /\ Len(intos) = 2
    /\ intos[1].obj = "map" /\ intos[2].obj = "map"
    /\ intos[1].decoded
    /\ intos[1].before.statusCode = 200

\* C17: after StatusCode(p) with a non-nil p on a Result without an
\* error, the caller's int holds the status code of the response, and the
\* call returned the same Result.
C17_StatusCodeStored ==
    (pointed.p = "loc" /\ res.err = NoErr) =>
        (loc = res.statusCode /\ pointed.returned = res)

ForcedKeys == {"Content-Type", "Accept", "Accept-Charset"}

\* The header names of w that are key, whatever their case.
Named(w, key) == {k \in DOMAIN w : Canonical(k) = key}

\* C11: the wire request of an attempt carries the single values
\* Content-Type: application/json, Accept: application/json and
\* Accept-Charset: utf-8, no Accept-Encoding, and every other configured
\* header with its values.
C11_ForcedHeadersOnly ==
    \A b \in Builders :
        sent[b].done =>
            LET w == sent[b].header
                conf == sent[b].conf
            IN  /\ \A key \in ForcedKeys : Named(w, key) = {key}
                /\ w["Content-Type"] = <<"application/json">>
                /\ w["Accept"] = <<"application/json">>
                /\ w["Accept-Charset"] = <<"utf-8">>
                /\ Named(w, "Accept-Encoding") = {}
                /\ \A k \in DOMAIN conf :
                      Canonical(k) \notin ForcedKeys \cup {"Accept-Encoding"} =>
                          (k \in DOMAIN w /\ w[k] = conf[k])

\* The header sets, as the caller made them, that builder b was given up
\* to its n-th WithHeader, merged.
RECURSIVE Configured(_, _)
Configured(b, n) ==
    IF n = 0 THEN <<>>
    ELSE IF n = 1 THEN CallerHeaders[given[b][1]]
    ELSE Merge(Configured(b, n - 1), CallerHeaders[given[b][n]],
               DOMAIN CallerHeaders[given[b][n]])

\* C15: the calls on one builder change neither a header set the caller
\* passed in nor what another builder is configured with or sends: every
\* caller's set is as the caller made it, and a builder's headers are those
\* of the sets it was given itself.
C15_BuildersIndependent ==
    /\ \A a \in DOMAIN CallerHeaders : heap[a] = CallerHeaders[a]
    /\ \A b \in Builders :
          /\ Clone(heap, header[b]) = Configured(b, Len(given[b]))
          /\ sent[b].done =>
                sent[b].header =
                    WireHeader(Configured(b, Len(sent[b].given)),
                               rc.username, rc.password)

\* C19: a channel subscribed before a Publish never receives that Event
\* twice, and once no send and no receive is left to do, every such channel
\* whose receiver keeps receiving has received it, whatever the other
\* subscribers do. (Publish has no guard on any channel: it returns without
\* waiting.)
C19_FanOutDelivers ==
    \A i \in DOMAIN senders :
        \A k \in DOMAIN senders[i].channels :
            LET ch == senders[i].channels[k] IN
            /\ Count(received[ch], senders[i].event) <= 1
            /\ (ch \in drains /\ ~ENABLED Deliver) =>
                  Count(received[ch], senders[i].event) = 1

\* C20: for every name, createInstance succeeds at most once on behalf of
\* the DB calls for that name, and all handles DB returned for the name are
\* one and the same.
C20_OneHandlePerName ==
    /\ \A n \in DBNames : created[n] <= 1
    /\ \A x, y \in returns : x.name = y.name => x.handle = y.handle

====
